---- MODULE Spec2Model ----
(***************************************************************************)
(* Model of infra-logging.py: the per-day retrieval loop                    *)
(* (get_data_from_server), the file reader (get_data_from_file), the        *)
(* normalizer (refine_data), the three views of AnalyzeData and main.       *)
(*                                                                          *)
(* Representation.                                                          *)
(*  - A JSON / Python value is a tagged record: [t |-> "str", s |-> chars], *)
(*    [t |-> "int", n |-> k], [t |-> "float", tenths |-> k] (the float      *)
(*    k/10), [t |-> "null"], [t |-> "dict", d |-> function on its keys].    *)
(*    A Python str is the sequence of its characters.                       *)
(*  - The float "size" of a refined record (gigabytes rounded to two        *)
(*    decimals) is the integer number of hundredths of a gigabyte.          *)
(*  - A Python exception is the string of its class name; "none" is normal  *)
(*    completion.                                                           *)
(*  - The objects of self.data are identified by their position in the      *)
(*    list; a sorted listing is the sequence of those positions.            *)
(***************************************************************************)
EXTENDS Integers, Sequences, FiniteSets, TLC

VARIABLES
    pc,         \* position in main ("api": an AnalyzeData object used directly)
    debug,      \* args.debug
    days,       \* args.days
    i,          \* get_data_from_server: loop variable = number of queries issued
    all_data,   \* get_data_from_server: accumulated records
    responses,  \* what the endpoint answered to each query so far
    raw_data,   \* main: raw_data
    refined,    \* refine_data: refined
    errors,     \* refine_data: errors
    data,       \* AnalyzeData.data
    ranked,     \* the records the last view printed, as positions in data
    view,       \* the last view called on the AnalyzeData object
    views_run,  \* the views main has called, in call order
    raised      \* the exception that ended the last call, or "none"

vars == <<pc, debug, days, i, all_data, responses, raw_data, refined, errors,
          data, ranked, view, views_run, raised>>

\* ------------------------------------------------------------------ bounds
MaxLen == 3        \* longest list read from the file
MaxDays == 2       \* largest --days
MaxDayLen == 1     \* longest list one day's query answers
MaxRecords == 6    \* longest record list handed to AnalyzeData directly

\* --------------------------------------------------------- program constants
SHARD_SZ_GB == 30
TopN == 5
BytesPerGB == 1000000000
Centi == 100       \* round(..., 2): sizes are kept in hundredths of a GB

Min(a, b) == IF a <= b THEN a ELSE b
Abs(x) == IF x < 0 THEN -x ELSE x

\* int(a / b) for b # 0: Python's int() of a float truncates toward zero.
TruncDiv(a, b) ==
    LET q == Abs(a) \div Abs(b)
    IN  IF (a < 0) # (b < 0) THEN -q ELSE q

\* ------------------------------------------------------------- JSON values
JStr(s) == [t |-> "str", s |-> s]
JInt(n) == [t |-> "int", n |-> n]
JFloat(k) == [t |-> "float", tenths |-> k]
JNull == [t |-> "null"]
JDict(d) == [t |-> "dict", d |-> d]

Ok(v) == [exc |-> "none", val |-> v]
Raise(e) == [exc |-> e]

\* v[key]
GetItem(v, key) ==
    IF v.t = "dict"
    THEN IF key \in DOMAIN v.d THEN Ok(v.d[key]) ELSE Raise("KeyError")
    ELSE Raise("TypeError")

Digits == {"0", "1", "2", "3", "4", "5", "6", "7", "8", "9"}

DigitVal(c) ==
    CASE c = "0" -> 0 [] c = "1" -> 1 [] c = "2" -> 2 [] c = "3" -> 3
      [] c = "4" -> 4 [] c = "5" -> 5 [] c = "6" -> 6 [] c = "7" -> 7
      [] c = "8" -> 8 [] c = "9" -> 9

RECURSIVE DigitsValue(_)
DigitsValue(ds) ==
    IF ds = <<>> THEN 0
    ELSE DigitsValue(SubSeq(ds, 1, Len(ds) - 1)) * 10 + DigitVal(ds[Len(ds)])

RECURSIVE LStrip(_)
LStrip(s) == IF s # <<>> /\ s[1] = " " THEN LStrip(Tail(s)) ELSE s

RECURSIVE RStrip(_)
RStrip(s) ==
    IF s # <<>> /\ s[Len(s)] = " " THEN RStrip(SubSeq(s, 1, Len(s) - 1)) ELSE s

\* int(s) for a str s: surrounding whitespace, an optional sign, decimal digits.
StrToInt(s) ==
    LET b == RStrip(LStrip(s))
        signed == b # <<>> /\ b[1] \in {"-", "+"}
        ds == IF signed THEN Tail(b) ELSE b
    IN  IF ds = <<>> \/ \E k \in 1..Len(ds) : ds[k] \notin Digits
        THEN Raise("ValueError")
        ELSE Ok(IF signed /\ b[1] = "-" THEN -DigitsValue(ds) ELSE DigitsValue(ds))

\* int(v)
PyInt(v) ==
    CASE v.t = "int" -> Ok(v.n)
      [] v.t = "float" -> Ok(TruncDiv(v.tenths, 10))
      [] v.t = "str" -> StrToInt(v.s)
      [] OTHER -> Raise("TypeError")

\* round(b / 1000**3, 2) in hundredths of a GB.  The quotient is a double: a
\* value exactly half way between two hundredths is not representable, and
\* the double nearest to it lies above or below depending on the value, so
\* on such a value the result is either neighbour (up says which).
RoundGB(b, up) ==
    LET unit == BytesPerGB \div Centi
        q == Abs(b) \div unit
        r == Abs(b) % unit
        m == IF 2 * r > unit \/ (2 * r = unit /\ up) THEN q + 1 ELSE q
    IN  IF b < 0 THEN -m ELSE m

\* The body of the try block of refine_data for one element.
Convert(index, up) ==
    LET name == GetItem(index, "index")
        size == GetItem(index, "pri.store.size")
        pri == GetItem(index, "pri")
    IN  IF name.exc # "none" THEN Raise(name.exc)
        ELSE IF size.exc # "none" THEN Raise(size.exc)
        ELSE IF PyInt(size.val).exc # "none" THEN Raise(PyInt(size.val).exc)
        ELSE IF pri.exc # "none" THEN Raise(pri.exc)
        ELSE IF PyInt(pri.val).exc # "none" THEN Raise(PyInt(pri.val).exc)
        ELSE Ok([index |-> name.val,
                 size |-> RoundGB(PyInt(size.val).val, up),
                 shards |-> PyInt(pri.val).val])

\* Faulty variant of the loop: an element that fails is dropped, not reported.
RECURSIVE RefineLoopSilent(_, _, _, _, _)
RefineLoopSilent(items, ups, k, ref, errs) ==
    IF k > Len(items) THEN [refined |-> ref, errors |-> errs]
    ELSE LET c == Convert(items[k], ups[k])
         IN  IF c.exc = "none"
             THEN RefineLoopSilent(items, ups, k + 1, Append(ref, c.val), errs)
             ELSE RefineLoopSilent(items, ups, k + 1, ref, errs)

\* The loop of refine_data over data[k..]; ups[k] resolves a half-way size.
RECURSIVE RefineLoop(_, _, _, _, _)
RefineLoop(items, ups, k, ref, errs) ==
    IF k > Len(items) THEN [refined |-> ref, errors |-> errs]
    ELSE LET c == Convert(items[k], ups[k])
         IN  IF c.exc = "none"
             THEN RefineLoop(items, ups, k + 1, Append(ref, c.val), errs)
             ELSE RefineLoop(items, ups, k + 1, ref, Append(errs, items[k]))

refine_data(items, ups) == RefineLoop(items, ups, 1, <<>>, <<>>)

\* ---------------------------------------------------------------- analyzer
\* Faulty variant of the insertion: equal keys end up in reverse input order
\* (what reversing an ascending sort would give).
InsertDescUnstable(s, p, recs, f) ==
    LET k == Cardinality({j \in 1..Len(s) : recs[s[j]][f] > recs[p][f]})
    IN  SubSeq(s, 1, k) \o <<p>> \o SubSeq(s, k + 1, Len(s))

\* sorted(recs, key=lambda x: x[f], reverse=True) as positions of recs: the
\* sort is stable, and reverse=True keeps equal keys in their original order.
InsertDesc(s, p, recs, f) ==
    LET k == Cardinality({j \in 1..Len(s) : recs[s[j]][f] >= recs[p][f]})
    IN  SubSeq(s, 1, k) \o <<p>> \o SubSeq(s, k + 1, Len(s))

RECURSIVE SortedPrefix(_, _, _)
SortedPrefix(recs, f, n) ==
    IF n = 0 THEN <<>> ELSE InsertDesc(SortedPrefix(recs, f, n - 1), n, recs, f)

SortedDesc(recs, f) == SortedPrefix(recs, f, Len(recs))

\* Faulty variant of the slice: always five entries, padded with position 0.
Top5Padded(s) == [k \in 1..TopN |-> IF k <= Len(s) THEN s[k] ELSE 0]

\* s[:5]
Top5(s) == SubSeq(s, 1, Min(TopN, Len(s)))

\* Faulty variant of the ratio: rounded to the nearest integer, not truncated.
BalanceRatioRounded(r) ==
    TruncDiv(2 * r.size + Centi * r.shards, 2 * Centi * r.shards)

\* int(index['size'] / index['shards']), shards # 0
BalanceRatio(r) == TruncDiv(r.size, Centi * r.shards)

\* Faulty variant of the recommendation: rounded up, not down.
RecShardCountCeil(r) ==
    IF r.size >= SHARD_SZ_GB * Centi
    THEN TruncDiv(r.size + SHARD_SZ_GB * Centi - 1, SHARD_SZ_GB * Centi)
    ELSE IF 0 < r.size /\ r.size < SHARD_SZ_GB * Centi THEN 1
    ELSE 0

\* the if / elif / else of print_least_balanced
RecShardCount(r) ==
    IF r.size >= SHARD_SZ_GB * Centi THEN TruncDiv(r.size, SHARD_SZ_GB * Centi)
    ELSE IF 0 < r.size /\ r.size < SHARD_SZ_GB * Centi THEN 1
    ELSE 0

\* Faulty variant of the assignments: the ratio is written over the size.
AugmentOverSize(r) ==
    [f \in DOMAIN r \cup {"balance_ratio", "rec_shard_count"} |->
        IF f \in {"balance_ratio", "size"} THEN TruncDiv(r.size, Centi * r.shards)
        ELSE IF f = "rec_shard_count" THEN 0
        ELSE r[f]]

\* the two item assignments on one record of self.data
Augment(r) ==
    [f \in DOMAIN r \cup {"balance_ratio", "rec_shard_count"} |->
        IF f = "balance_ratio" THEN BalanceRatio(r)
        ELSE IF f = "rec_shard_count" THEN RecShardCount(r)
        ELSE r[f]]

\* The first loop of print_least_balanced from position k on: it writes the
\* derived fields into the records of self.data and stops with
\* ZeroDivisionError at the first record whose shards is 0.
RECURSIVE BalanceLoop(_, _)
BalanceLoop(recs, k) ==
    IF k > Len(recs) THEN [data |-> recs, exc |-> "none"]
    ELSE IF recs[k].shards = 0 THEN [data |-> recs, exc |-> "ZeroDivisionError"]
    ELSE BalanceLoop([recs EXCEPT ![k] = Augment(recs[k])], k + 1)

print_largest_indexes ==
    /\ ranked' = Top5(SortedDesc(data, "size"))
    /\ view' = "size"
    /\ raised' = "none"
    /\ data' = data

print_most_shards ==
    /\ ranked' = Top5(SortedDesc(data, "shards"))
    /\ view' = "shards"
    /\ raised' = "none"
    /\ data' = data

print_least_balanced ==
    LET res == BalanceLoop(data, 1)
    IN  /\ data' = res.data
        /\ raised' = res.exc
        /\ view' = "balance"
        /\ ranked' = IF res.exc = "none"
                     THEN Top5(SortedDesc(res.data, "balance_ratio"))
                     ELSE <<>>

\* ------------------------------------------------------------------ inputs
Rec3(name, size, pri) ==
    JDict(("index" :> name) @@ ("pri.store.size" :> size) @@ ("pri" :> pri))

\* 1.23 GB on 3 shards, sizes and counts as the endpoint sends them (strings)
RawA == Rec3(JStr(<<"a">>), JStr(<<"1","2","3","4","5","6","7","8","9","0">>),
             JStr(<<"3">>))
\* the same index name again (another day's snapshot), 2 GB on 5 shards
RawA2 == Rec3(JStr(<<"a">>), JStr(<<"2","0","0","0","0","0","0","0","0","0">>),
              JStr(<<" ","5">>))
\* no shards; 0.015 GB lies half way between two hundredths
RawZ == Rec3(JStr(<<"z">>), JInt(15000000), JInt(0))
\* an empty name, a negative size and a negative shard count
RawNeg == Rec3(JStr(<<>>), JStr(<<"-","1","0","0","0","0","0","0","0","0","0">>),
               JStr(<<"-","1">>))
\* a name that is no string, numbers sent as numbers
RawNum == Rec3(JNull, JInt(300000000), JFloat(25))
\* the size key is missing
RawMissing == JDict(("index" :> JStr(<<"m">>)) @@ ("pri" :> JStr(<<"1">>)))
\* a size that is no number
RawText == Rec3(JStr(<<"n">>), JStr(<<"1","2","x">>), JStr(<<"1">>))
\* a shard count of the wrong type
RawNull == Rec3(JStr(<<"b">>), JInt(5000001), JNull)
\* an element that is no mapping
RawScalar == JInt(7)

RawElems == {RawA, RawA2, RawZ, RawNeg, RawNum, RawMissing, RawText, RawNull,
             RawScalar}
ServerElems == {RawA, RawZ, RawMissing}

\* The keys of a JSON object such as {"error": ..., "status": 404}.
DictKeys == <<JStr(<<"e","r","r","o","r">>), JStr(<<"s","t","a","t","u","s">>)>>

SeqsUpTo(S, n) == UNION {[1..k -> S] : k \in 0..n}

\* What json.load can return from the file, or None after an error.
FileDocs ==
    {[t |-> "none"], [t |-> "scalar"], [t |-> "dict", items |-> DictKeys]}
        \cup {[t |-> "list", items |-> s] : s \in SeqsUpTo(RawElems, MaxLen)}

\* What one day's query can end in.
Responses ==
    {[t |-> "request_error"], [t |-> "not_json"], [t |-> "scalar"],
     [t |-> "dict", items |-> DictKeys]}
        \cup {[t |-> "list", items |-> s] : s \in SeqsUpTo(ServerElems, MaxDayLen)}

\* Records as refine_data emits them, sizes in hundredths of a GB.
Canon(name, size, shards) ==
    [index |-> JStr(name), size |-> size, shards |-> shards]

CanonRecs ==
    {Canon(<<"a">>, 9000, 3),      \* 90 GB on 3 shards
     Canon(<<"b">>, 1000, 5),      \* 10 GB on 5 shards
     Canon(<<"c">>, 0, 3),         \* empty index
     Canon(<<"d">>, 8999, 1),      \* 89.99 GB on 1 shard
     Canon(<<"z">>, 9000, 0)}      \* 90 GB, no shards

\* -------------------------------------------------------------------- main
Init ==
    /\ pc = "start"
    /\ debug \in BOOLEAN
    /\ days \in 0..MaxDays
    /\ i = 0
    /\ all_data = <<>>
    /\ responses = <<>>
    /\ raw_data = <<>>
    /\ refined = <<>>
    /\ errors = <<>>
    /\ data = <<>>
    /\ ranked = <<>>
    /\ view = "none"
    /\ views_run = <<>>
    /\ raised = "none"

\* main, --debug: get_data_from_file and the checks on what it returned.  None
\* ends the run through sys.exit; len() of a number raises TypeError, which
\* nothing catches; iterating a JSON object yields its keys.
ReadFile ==
    /\ pc = "start"
    /\ debug
    /\ \E doc \in FileDocs :
         /\ pc' = CASE doc.t = "none" -> "exit"
                    [] doc.t = "scalar" -> "crash"
                    [] OTHER -> "refine"
         /\ raised' = IF doc.t = "scalar" THEN "TypeError" ELSE raised
         /\ raw_data' = IF doc.t \in {"list", "dict"} THEN doc.items ELSE raw_data
    /\ UNCHANGED <<debug, days, i, all_data, responses, refined, errors, data,
                   ranked, view, views_run>>

\* main without --debug: entry of get_data_from_server
FetchBegin ==
    /\ pc = "start"
    /\ ~debug
    /\ pc' = "fetch"
    /\ i' = 0
    /\ all_data' = <<>>
    /\ UNCHANGED <<debug, days, responses, raw_data, refined, errors, data,
                   ranked, view, views_run, raised>>

\* One iteration of the loop of get_data_from_server.  requests.get raising a
\* RequestException is caught and the loop goes on.  response.json() on a body
\* that is no JSON raises a JSONDecodeError, which is a RequestException in
\* some releases of requests and a plain ValueError in others: caught tells
\* which.  extend() of a JSON object appends its keys; extend() of a number,
\* true, false or null raises TypeError.  An exception that is not caught
\* leaves the function, and main ends the run through sys.exit.
FetchDay ==
    /\ pc = "fetch"
    /\ i < days
    /\ \E r \in Responses, caught \in BOOLEAN :
         /\ responses' = Append(responses, r)
         /\ raised' = CASE r.t = "scalar" -> "TypeError"
                        [] r.t = "not_json" /\ ~caught -> "JSONDecodeError"
                        [] OTHER -> raised
         /\ pc' = IF raised' = "none" THEN "fetch" ELSE "exit"
         /\ i' = IF raised' = "none" THEN i + 1 ELSE i
         /\ all_data' = IF r.t \in {"list", "dict"}
                        THEN all_data \o r.items
                        ELSE all_data
    /\ UNCHANGED <<debug, days, raw_data, refined, errors, data, ranked, view,
                   views_run>>

\* return all_data
FetchReturn ==
    /\ pc = "fetch"
    /\ i >= days
    /\ raw_data' = all_data
    /\ pc' = "refine"
    /\ UNCHANGED <<debug, days, i, all_data, responses, refined, errors, data,
                   ranked, view, views_run, raised>>

\* data = refine_data(raw_data)
RefineData ==
    /\ pc = "refine"
    /\ \E ups \in [1..Len(raw_data) -> BOOLEAN] :
         LET res == refine_data(raw_data, ups)
         IN  /\ refined' = res.refined
             /\ errors' = res.errors
    /\ pc' = "refined"
    /\ UNCHANGED <<debug, days, i, all_data, responses, raw_data, data, ranked,
                   view, views_run, raised>>

\* Faulty variant of the branch: the views run whether or not data is empty.
MainAnalyzeUnguarded ==
    /\ pc = "refined"
    /\ pc' = "size"
    /\ data' = refined
    /\ UNCHANGED <<debug, days, i, all_data, responses, raw_data, refined,
                   errors, ranked, view, views_run, raised>>

\* if data: analyze_data = AnalyzeData(data) ... else: print(...)
MainAnalyze ==
    /\ pc = "refined"
    /\ pc' = IF refined # <<>> THEN "size" ELSE "done"
    /\ data' = IF refined # <<>> THEN refined ELSE data
    /\ UNCHANGED <<debug, days, i, all_data, responses, raw_data, refined,
                   errors, ranked, view, views_run, raised>>

MainSize ==
    /\ pc = "size"
    /\ print_largest_indexes
    /\ views_run' = Append(views_run, "size")
    /\ pc' = "shards"
    /\ UNCHANGED <<debug, days, i, all_data, responses, raw_data, refined, errors>>

MainShards ==
    /\ pc = "shards"
    /\ print_most_shards
    /\ views_run' = Append(views_run, "shards")
    /\ pc' = "balance"
    /\ UNCHANGED <<debug, days, i, all_data, responses, raw_data, refined, errors>>

MainBalance ==
    /\ pc = "balance"
    /\ print_least_balanced
    /\ views_run' = Append(views_run, "balance")
    /\ pc' = IF raised' = "none" THEN "done" ELSE "crash"
    /\ UNCHANGED <<debug, days, i, all_data, responses, raw_data, refined, errors>>

Next ==
    \/ ReadFile
    \/ FetchBegin
    \/ FetchDay
    \/ FetchReturn
    \/ RefineData
    \/ MainAnalyze
    \/ MainSize
    \/ MainShards
    \/ MainBalance

Spec == Init /\ [][Next]_vars

\* ------------------------------------------- an AnalyzeData object on its own
\* AnalyzeData(data) on any list of records, then its methods in any order.
InitAnalyze ==
    /\ pc = "api"
    /\ data \in SeqsUpTo(CanonRecs, MaxRecords)
    /\ debug = FALSE
    /\ days = 0
    /\ i = 0
    /\ all_data = <<>>
    /\ responses = <<>>
    /\ raw_data = <<>>
    /\ refined = <<>>
    /\ errors = <<>>
    /\ ranked = <<>>
    /\ view = "none"
    /\ views_run = <<>>
    /\ raised = "none"

CallSize ==
    /\ pc = "api"
    /\ print_largest_indexes
    /\ UNCHANGED <<pc, debug, days, i, all_data, responses, raw_data, refined,
                   errors, views_run>>

CallShards ==
    /\ pc = "api"
    /\ print_most_shards
    /\ UNCHANGED <<pc, debug, days, i, all_data, responses, raw_data, refined,
                   errors, views_run>>

CallBalance ==
    /\ pc = "api"
    /\ print_least_balanced
    /\ UNCHANGED <<pc, debug, days, i, all_data, responses, raw_data, refined,
                   errors, views_run>>

NextAnalyze == CallSize \/ CallShards \/ CallBalance

SpecAnalyze == InitAnalyze /\ [][NextAnalyze]_vars

\* ================================================================== claims
Range(s) == {s[k] : k \in 1..Len(s)}
Core == {"index", "size", "shards"}
Derived == {"balance_ratio", "rec_shard_count"}
Target == SHARD_SZ_GB * Centi

\* ranked is the stable top-5 of data by field f: min(5, L) distinct positions,
\* keys descending, equal keys in list order, and every record left out ranks
\* after every record kept.
TopOK(f) ==
    LET L == Len(data)
        n == Len(ranked)
        Before(p, q) == data[p][f] > data[q][f] \/ (data[p][f] = data[q][f] /\ p < q)
    IN  /\ n = Min(5, L)
        /\ \A k \in 1..n : ranked[k] \in 1..L
        /\ \A j, k \in 1..n : j < k => Before(ranked[j], ranked[k])
        /\ \A p \in (1..L) \ Range(ranked) : \A k \in 1..n : Before(ranked[k], p)

\* What the claims call a record that fully converts: a mapping with the three
\* keys whose byte size and shard count int() accepts.
FullyConverts(e) ==
    /\ e.t = "dict"
    /\ {"index", "pri.store.size", "pri"} \subseteq DOMAIN e.d
    /\ PyInt(e.d["pri.store.size"]).exc = "none"
    /\ PyInt(e.d["pri"]).exc = "none"

Rejected(e) == ~FullyConverts(e)

\* The records of the days whose answer was a list, in query order.
RECURSIVE WellFormedConcat(_)
WellFormedConcat(rs) ==
    IF rs = <<>> THEN <<>>
    ELSE (IF rs[1].t = "list" THEN rs[1].items ELSE <<>>)
             \o WellFormedConcat(Tail(rs))

\* C1: whenever the least-balanced view has run on a record set holding a
\* record with shards = 0, it completed without raising and no record with
\* shards = 0 is among the records it reported.
C1_ZeroShardsExcluded ==
    (view = "balance" /\ \E p \in 1..Len(data) : data[p].shards = 0)
        => /\ raised = "none"
           /\ \A k \in 1..Len(ranked) : data[ranked[k]].shards # 0

\* C2: when refine_data has returned, every input element is in exactly one of
\* refined and errors: errors holds, in input order, the elements that do not
\* fully convert, refined holds, in input order and with duplicate index names
\* kept, one record for each element that does, carrying that element's index
\* and shard count, and the two lengths add up to the length of the input.
C2_Partition ==
    pc = "refined" =>
        LET good == SelectSeq(raw_data, FullyConverts)
        IN  /\ Len(refined) + Len(errors) = Len(raw_data)
            /\ errors = SelectSeq(raw_data, Rejected)
            /\ Len(refined) = Len(good)
            /\ \A k \in 1..Len(good) :
                 /\ refined[k].index = good[k].d["index"]
                 /\ refined[k].shards = PyInt(good[k].d["pri"]).val

C2_Witness ==
    /\ pc = "refined"
    /\ Len(raw_data) = 3
    /\ Len(refined) = 2
    /\ refined[1].index = refined[2].index
    /\ refined[1].shards # refined[2].shards
    /\ errors = <<RawScalar>>

\* C3: every record refine_data returns has a non-empty string as index, a
\* size that is not negative and a shard count that is not negative.
C3_ValidFields ==
    pc = "refined" =>
        \A k \in 1..Len(refined) :
            /\ refined[k].index.t = "str"
            /\ refined[k].index.s # <<>>
            /\ refined[k].size >= 0
            /\ refined[k].shards >= 0

C5_RecommendedShards ==
    \A p \in 1..Len(data) :
        "rec_shard_count" \in DOMAIN data[p] =>
            LET sz == data[p].size
                rec == data[p].rec_shard_count
            IN  /\ sz = 0 => rec = 0
                /\ (0 < sz /\ sz < Target) => rec = 1
                /\ sz >= Target => (rec * Target <= sz /\ sz < (rec + 1) * Target)
                /\ \A k \in 1..4 : sz = k * Target => rec = k

C5_Witness ==
    /\ view = "balance"
    /\ raised = "none"
    /\ \E p \in 1..Len(data) : data[p].size = 3 * Target /\ data[p].rec_shard_count = 3
    /\ \E p \in 1..Len(data) : data[p].size = 8999 /\ data[p].rec_shard_count = 2
    /\ \E p \in 1..Len(data) : data[p].size = 1000 /\ data[p].rec_shard_count = 1
    /\ \E p \in 1..Len(data) : data[p].size = 0 /\ data[p].rec_shard_count = 0

\* C6: after the size view (the shard-count view) the reported records are
\* the first min(5, L) of the set in descending order of size (of shards),
\* equal keys in input order, no record twice and nothing padded.
C6_TopBySizeAndShards ==
    /\ view = "size" => TopOK("size")
    /\ view = "shards" => TopOK("shards")

\* six records, five reported, two of them equal in size and kept in input
\* order, and the record left out equal in size to the last one kept
C6_Witness ==
    /\ view = "size"
    /\ Len(data) = 6
    /\ Len(ranked) = 5
    /\ data[ranked[1]].size = data[ranked[2]].size
    /\ data[ranked[1]].index # data[ranked[2]].index
    /\ \E p \in (1..6) \ Range(ranked) : data[p].size = data[ranked[5]].size

\* C7: after the least-balanced view on a set whose records all have
\* shards > 0 (and, being canonical, size >= 0), no exception was raised,
\* every record has balance_ratio = floor(size / shards), the reported records
\* are the first min(5, L) in descending order of balance_ratio with equal
\* ratios in input order, and each carries index, size, shards and the two
\* derived fields; 90 GB on 3 shards gives 30 and 3, 10 GB on 5 shards 2 and 1.
C7_LeastBalanced ==
    (view = "balance" /\ \A p \in 1..Len(data) : data[p].shards > 0 /\ data[p].size >= 0)
        => /\ raised = "none"
           /\ \A p \in 1..Len(data) :
                /\ DOMAIN data[p] = Core \cup Derived
                /\ data[p].balance_ratio * Centi * data[p].shards <= data[p].size
                /\ data[p].size < (data[p].balance_ratio + 1) * Centi * data[p].shards
                /\ (data[p].size = 9000 /\ data[p].shards = 3)
                      => (data[p].balance_ratio = 30 /\ data[p].rec_shard_count = 3)
                /\ (data[p].size = 1000 /\ data[p].shards = 5)
                      => (data[p].balance_ratio = 2 /\ data[p].rec_shard_count = 1)
           /\ TopOK("balance_ratio")

C7_Witness ==
    /\ view = "balance"
    /\ raised = "none"
    /\ Len(data) = 6
    /\ Len(ranked) = 5
    /\ \E p \in 1..Len(data) : data[p].size = 9000 /\ data[p].shards = 3
    /\ \E p \in 1..Len(data) : data[p].size = 1000 /\ data[p].shards = 5
    /\ data[ranked[1]].balance_ratio = 89
    /\ data[ranked[2]].balance_ratio = data[ranked[3]].balance_ratio

\* C8: when get_data_from_server is over and every day's answer was a failed
\* request or a JSON body, it has returned, it has issued exactly `days`
\* queries, and what it returned is the concatenation, in query order, of the
\* records of the days that answered with a list of records.
C8_MalformedDaySkipped ==
    (/\ ~debug
     /\ pc \in {"refine", "exit"}
     /\ \A k \in 1..Len(responses) : responses[k].t # "not_json")
        => /\ pc = "refine"
           /\ Len(responses) = days
           /\ raw_data = WellFormedConcat(responses)

\* C9: on an empty record set each of the three views completes without
\* raising and reports no record.
C9_EmptySet ==
    (data = <<>> /\ view # "none") => (ranked = <<>> /\ raised = "none")

C9_Witness == pc = "api" /\ data = <<>> /\ view = "balance" /\ raised = "none"

\* C10: in main the views that have run are a prefix of size, shard count,
\* least balanced; a view has run only after refine_data returned a non-empty
\* list; when the size view or the shard-count view is about to read the
\* records none of them has a derived field; and no view has run when the run
\* ended in sys.exit or when the refined list is empty.
C10_ViewOrder ==
    /\ \E n \in 0..3 : views_run = SubSeq(<<"size", "shards", "balance">>, 1, n)
    /\ views_run # <<>> =>
          (pc \in {"shards", "balance", "done", "crash"} /\ refined # <<>> /\ Len(data) = Len(refined))
    /\ pc \in {"size", "shards"} => \A p \in 1..Len(data) : DOMAIN data[p] = Core
    /\ pc \in {"size", "shards", "balance"} => (refined # <<>> /\ data = refined)
    /\ (pc = "exit" \/ refined = <<>>) => (views_run = <<>> /\ view = "none")

C10_Witness ==
    /\ pc = "done"
    /\ views_run = <<"size", "shards", "balance">>
    /\ Len(data) >= 2

====
